---- MODULE Spec2Model ----
(***************************************************************************)
(* Model of item-nonresponse-demo.ipynb: the three missingness generators  *)
(* (create_mcar_column, create_mar_column, create_nmar_column), the        *)
(* single-value imputers (impute_mean, impute_median, impute_mode) and     *)
(* regression_imputation.                                                  *)
(*                                                                         *)
(* Conventions.  A table (pandas DataFrame with the default RangeIndex) is *)
(* a function from column names to sequences of equal length; Python row   *)
(* i (0-based) is position i+1 here.  Numbers that the code keeps as       *)
(* floats are kept exact: p_missing is the fraction pnum/PDen, a mean or a *)
(* median is a pair <<numerator, denominator>>.  numpy's global generator  *)
(* is a deterministic state machine; it is modelled by a full-period       *)
(* linear congruential generator over RngMod states.                       *)
(***************************************************************************)
EXTENDS Integers, Sequences, FiniteSets, TLC

\* ---- bounds of the model ------------------------------------------------
MaxRows == 3
PDen == 4
MaxDraws == 20
MaxImpRows == 4
MaxRegRows == 2
PatLen == 2
\* rows of the notebook's table (size = 100) and rows the df_missing cell visits
\* (range(100))
DataSize == 100
ApplyRange == 100
\* the integer that stands for np.nan in a cell
NaN == -99
\* size of the modelled generator state space (Mersenne Twister in numpy)
RngMod == 16

\* cell values (integers, as the rounded ages of the data cell)
Vals == {-1, 0, 1, 2}
\* random_state arguments
Seeds == {7, 42}
\* the documented values of method
Methods == {"linear", "quadratic"}
\* p_missing is PNums / PDen: the proportions in [0, 1] and one value above 1,
\* which the generators accept as well
PNums == 0..(PDen + 1)

VARIABLES
    df,        \* the table the notebook works on
    rng,       \* state of numpy's global random generator
    pc,        \* control point of the running call
    fn,        \* name of the function being executed ("none" when idle)
    args,      \* its arguments
    indices,   \* mcar_indices / mar_indices / nmar_indices
    samples,   \* number of df.sample invocations made by the running call
    model,     \* the regression model object of regression_imputation
    result,    \* the returned column
    err,       \* the exception that ended the call ("none" otherwise)
    ref,       \* the kept generator calls: records of arguments and result
    df_missing \* the table with the missingness applied

vars == <<df, rng, pc, fn, args, indices, samples, model, result, err, ref,
          df_missing>>

None == "none"

\* df_missing before the cell that builds it has run
NoTable == <<>>
NoArgs == [p_missing |-> 0]

\* a model variable that has not been assigned
Unbound == [kind |-> "unbound", fitted |-> FALSE, rows |-> {}, X |-> <<>>, y |-> <<>>]

\* ---- helpers --------------------------------------------------------------
Range(s) == {s[i] : i \in 1..Len(s)}

RECURSIVE SumTo(_, _)
SumTo(s, i) == IF i = 0 THEN 0 ELSE s[i] + SumTo(s, i - 1)

Sum(s) == SumTo(s, Len(s))

SeqsUpTo(S, n) == UNION {[1..m -> S] : m \in 0..n}

\* df.shape[0]
NRows(t) == Len(t[CHOOSE c \in DOMAIN t : TRUE])

\* ---- round(p_missing * df.shape[0]) ---------------------------------------
\* Python 3 round(): nearest integer, a tie going to the even neighbour.
RoundHalfUp(num, den) ==
    IF 2 * (num % den) >= den THEN (num \div den) + 1 ELSE num \div den

Round(num, den) ==
    LET q == num \div den
        r == num % den
    IN  IF 2 * r < den THEN q
        ELSE IF 2 * r > den THEN q + 1
        ELSE IF q % 2 = 0 THEN q ELSE q + 1

\* round(p_missing * df.shape[0]) for p_missing = pnum / PDen
Requested(pnum, t) == Round(pnum * NRows(t), PDen)

\* ---- numpy's global generator ---------------------------------------------
\* np.random.seed(random_state): the state afterwards depends on the seed only
SeedIgnored(old, s) == old

np_random_seed(old, s) == s % RngMod

\* (a generator that yields the same variate again and again: a mutation of
\* Advance)
AdvanceStuck(r) == r

\* one variate consumed
Advance(r) == (5 * r + 3) % RngMod

\* ---- DataFrame.sample(n = 1, weights = ...) -------------------------------
\* the weight vector each generator passes to df.sample
UniformWeights(t) == [i \in 1..NRows(t) |-> 1]

\* (create_mcar_column passing the squared cells as weights, as the quadratic
\* branches do: a mutation of Weights)
WeightsMcarSquared(f, a, t) ==
    IF f = "create_mcar_column" \/ a.method = "quadratic"
    THEN [i \in 1..NRows(t) |-> t[a.column][i] * t[a.column][i]]
    ELSE t[a.column]

\* (a generator that falls back to uniform sampling when no weight is
\* positive: a mutation of Weights)
WeightsFallback(f, a, t) ==
    LET w == IF a.method = "linear" THEN t[a.column]
             ELSE [i \in 1..NRows(t) |-> t[a.column][i] * t[a.column][i]]
    IN  IF f = "create_mcar_column" \/ \A i \in 1..NRows(t) : w[i] <= 0
        THEN UniformWeights(t)
        ELSE w

Weights(f, a, t) ==
    IF f = "create_mcar_column" THEN UniformWeights(t)
    ELSE IF a.method = "linear" THEN t[a.column]
    ELSE [i \in 1..NRows(t) |-> t[a.column][i] * t[a.column][i]]

\* pandas validates a given weight vector before drawing; weights = None
\* (MCAR) is not validated
SampleError(f, w) ==
    IF f = "create_mcar_column" THEN None
    ELSE IF \E i \in 1..Len(w) : w[i] < 0
         THEN "ValueError: weight vector many not include negative values"
    ELSE IF Sum(w) = 0 THEN "ValueError: Invalid weights: weights sum to zero"
    ELSE None

\* (the search of the cumulative weights taking the left side of a tie: a
\* mutation of SampleIndex)
SampleIndexLeft(w, u) ==
    CHOOSE i \in 1..Len(w) :
        /\ SumTo(w, i) * RngMod >= u * Sum(w)
        /\ \A j \in 1..(i - 1) : ~(SumTo(w, j) * RngMod >= u * Sum(w))

\* the row drawn for the variate u / RngMod: inverse of the cumulative weights
SampleIndex(w, u) ==
    CHOOSE i \in 1..Len(w) :
        /\ SumTo(w, i) * RngMod > u * Sum(w)
        /\ \A j \in 1..(i - 1) : ~(SumTo(w, j) * RngMod > u * Sum(w))

\* [1 if i in indices else 0 for i in range(df.shape[0])]
Indicator(ix, n) == [i \in 1..n |-> IF i \in Range(ix) THEN 1 ELSE 0]

\* the loop test: len(set(indices)) < round(p_missing * df.shape[0])
\* (the same test without set(): a mutation of LoopTest)
LoopTestLen(ix, k) == Len(ix) < k

\* (the test with <= for <: a mutation of LoopTest)
LoopTestLe(ix, k) == Cardinality(Range(ix)) <= k

LoopTest(ix, k) == Cardinality(Range(ix)) < k

\* ---- the generators -------------------------------------------------------
IsGenerator(f) ==
    f \in {"create_mcar_column", "create_mar_column", "create_nmar_column"}

K == Requested(args.p_missing, df)

\* entry of a generator: np.random.seed(random_state), then the comprehension
Enter(f, a) ==
    /\ pc = "idle"
    /\ fn' = f
    /\ args' = a
    /\ rng' = np_random_seed(rng, a.random_state)
    /\ indices' = <<>>
    /\ samples' = 0
    /\ result' = <<>>
    /\ err' = None
    /\ pc' = IF Requested(a.p_missing, df) = 0 THEN "while" ELSE "comprehension"
    /\ UNCHANGED <<df, df_missing, model, ref>>

create_mcar_column ==
    \E p \in PNums, s \in Seeds, c \in DOMAIN df :
        Enter("create_mcar_column",
              [missing_column |-> c, column |-> c, method |-> None,
               p_missing |-> p, random_state |-> s])

create_mar_column ==
    \E p \in PNums, s \in Seeds, c \in DOMAIN df, d \in DOMAIN df, m \in Methods :
        Enter("create_mar_column",
              [missing_column |-> c, column |-> d, method |-> m,
               p_missing |-> p, random_state |-> s])

create_nmar_column ==
    \E p \in PNums, s \in Seeds, c \in DOMAIN df, m \in Methods :
        Enter("create_nmar_column",
              [missing_column |-> c, column |-> c, method |-> m,
               p_missing |-> p, random_state |-> s])

\* one df.sample(n = 1, weights = w).index[0]
Draw(next_pc) ==
    LET w == Weights(fn, args, df)
        e == SampleError(fn, w)
    IN  /\ samples' = samples + 1
        /\ IF e # None
           THEN /\ err' = e
                /\ pc' = "raised"
                /\ UNCHANGED <<rng, indices>>
           ELSE /\ indices' = Append(indices, SampleIndex(w, rng))
                /\ rng' = Advance(rng)
                /\ pc' = next_pc
                /\ UNCHANGED err
        /\ UNCHANGED <<df, df_missing, fn, args, model, result, ref>>

\* [df.sample(...).index[0] for i in range(round(p_missing * df.shape[0]))]
Comprehension ==
    /\ pc = "comprehension"
    /\ IsGenerator(fn)
    /\ Draw(IF Len(indices) + 1 < K THEN "comprehension" ELSE "while")

\* while len(set(indices)) < round(...): indices.append(df.sample(...).index[0])
WhileLoop ==
    /\ pc = "while"
    /\ IsGenerator(fn)
    /\ LoopTest(indices, K)
    /\ Len(indices) < MaxDraws
    /\ Draw("while")

\* the loop test fails: build the indicator column and return it
ReturnColumn ==
    /\ pc = "while"
    /\ IsGenerator(fn)
    /\ ~LoopTest(indices, K)
    /\ result' = Indicator(indices, NRows(df))
    /\ pc' = "returned"
    /\ UNCHANGED <<df, df_missing, rng, fn, args, indices, samples, model, err, ref>>

\* the call is over; the notebook goes on
Reset ==
    /\ fn' = None
    /\ args' = NoArgs
    /\ indices' = <<>>
    /\ samples' = 0
    /\ result' = <<>>
    /\ err' = None
    /\ model' = Unbound
    /\ pc' = "idle"
    /\ UNCHANGED <<df, df_missing, rng>>

Finish ==
    /\ pc \in {"returned", "raised"}
    /\ Reset
    /\ UNCHANGED ref

\* the notebook keeps the returned column of a call (df['..._missingness'] = ...)
Key(f, a) == <<f, a>>

FinishAndKeep ==
    /\ pc = "returned"
    /\ IsGenerator(fn)
    /\ ref = {}
    /\ ref' = {[key |-> Key(fn, args), result |-> result, indices |-> indices,
                 table |-> df]}
    /\ Reset

\* any other use of the global generator between calls
\* (np.random.uniform, binomial, poisson, normal of the data cell)
OtherDraw ==
    /\ pc = "idle"
    /\ rng' = Advance(rng)
    /\ UNCHANGED <<df, df_missing, pc, fn, args, indices, samples, model, result, err, ref>>

\* ---- the generators' specifications ----------------------------------------
GenTables == {[age |-> s] : s \in SeqsUpTo(Vals, MaxRows)}

Init ==
    /\ df \in GenTables
    /\ rng = np_random_seed(0, 42)
    /\ pc = "idle"
    /\ fn = None
    /\ args = NoArgs
    /\ indices = <<>>
    /\ samples = 0
    /\ model = Unbound
    /\ result = <<>>
    /\ err = None
    /\ ref = {}
    /\ df_missing = NoTable

Next ==
    \/ create_mcar_column
    \/ create_mar_column
    \/ create_nmar_column
    \/ Comprehension
    \/ WhileLoop
    \/ ReturnColumn
    \/ Finish
    \/ OtherDraw

Spec == Init /\ [][Next]_vars

\* the interpreter goes on executing a call it has entered: no statement of a
\* running generator is postponed forever
SpecFair ==
    /\ Spec
    /\ WF_vars(Comprehension)
    /\ WF_vars(WhileLoop)
    /\ WF_vars(ReturnColumn)

\* tables whose every weight is usable (positive cells): the calls on them
\* are the ones that can return twice
DetTables == {[age |-> s] : s \in SeqsUpTo(Vals \ {-1, 0}, MaxRows)}

InitDet ==
    /\ Init
    /\ df \in DetTables

NextDet ==
    \/ Next
    \/ FinishAndKeep

SpecDet == InitDet /\ [][NextDet]_vars

\* ---- create_mcar_column on several tables --------------------------------------
McarTables == {[age |-> s] : s \in SeqsUpTo({-1, 2}, MaxRows)}

\* the next call is given another table as its df argument
OtherTable ==
    /\ pc = "idle"
    /\ df' \in McarTables \ {df}
    /\ UNCHANGED <<df_missing, rng, pc, fn, args, indices, samples, model, result,
                   err, ref>>

InitMcar ==
    /\ Init
    /\ df \in McarTables

NextMcar ==
    \/ create_mcar_column
    \/ Comprehension
    \/ WhileLoop
    \/ ReturnColumn
    \/ Finish
    \/ FinishAndKeep
    \/ OtherDraw
    \/ OtherTable

SpecMcar == InitMcar /\ [][NextMcar]_vars

\* ---- single-value imputation ------------------------------------------------
\* A cell of an imputed column is the fraction <<numerator, denominator>>.
Exact(v) == <<v, 1>>

Count(col, v) == Cardinality({i \in 1..Len(col) : col[i] = v})

\* stats.mode(df[impute_column])[0][0]: the most frequent value, the smallest
\* one when several are equally frequent
Mode(col) ==
    LET best == CHOOSE v \in Range(col) :
                    \A w \in Range(col) :
                        \/ Count(col, w) < Count(col, v)
                        \/ Count(col, w) = Count(col, v) /\ v <= w
    IN  Exact(best)

\* np.median(df[impute_column]): the middle value of the sorted column, the
\* mean of the two middle values when the length is even
Median(col) ==
    LET s == SortSeq(col, LAMBDA a, b : a < b)
        n == Len(col)
    IN  IF n % 2 = 1 THEN Exact(s[(n + 1) \div 2])
        ELSE <<s[n \div 2] + s[(n \div 2) + 1], 2>>

\* (stats.mode in the place of np.mean: a mutation of Mean)
MeanAsMode(col) == Mode(col)

\* np.mean(df[impute_column]): over every stored row
Mean(col) == <<Sum(col), Len(col)>>

\* (the test == 1 for == 0: a mutation of Imputed)
ImputedSwapped(t, ic, mc, stat) ==
    [i \in 1..NRows(t) |-> IF t[mc][i] = 1 THEN Exact(t[ic][i]) ELSE stat]

\* [df.loc[i, impute_column] if df.loc[i, missingness_column] == 0 else <statistic>
\*  for i in range(df.shape[0])]
Imputed(t, ic, mc, stat) ==
    [i \in 1..NRows(t) |-> IF t[mc][i] = 0 THEN Exact(t[ic][i]) ELSE stat]

IsImputer(f) == f \in {"impute_mean", "impute_median", "impute_mode"}

\* the columns a call may name
ValueColumns(t) == DOMAIN t \cap {"age", "income"}

IndicatorOf(c) == IF c = "age" THEN "age_missingness" ELSE "income_missingness"

Impute(f, ic, mc, stat) ==
    /\ pc = "idle"
    /\ fn' = f
    /\ args' = [impute_column |-> ic, missingness_column |-> mc, p_missing |-> 0]
    /\ result' = Imputed(df, ic, mc, stat)
    /\ pc' = "returned"
    /\ UNCHANGED <<df, df_missing, rng, indices, samples, model, err, ref>>

impute_mean ==
    \E ic \in ValueColumns(df) :
        Impute("impute_mean", ic, IndicatorOf(ic), Mean(df[ic]))

impute_median ==
    \E ic \in ValueColumns(df) :
        Impute("impute_median", ic, IndicatorOf(ic), Median(df[ic]))

impute_mode ==
    \E ic \in ValueColumns(df) :
        Impute("impute_mode", ic, IndicatorOf(ic), Mode(df[ic]))

ImpTables(rows) ==
    UNION {{[age |-> a, age_missingness |-> m] :
               a \in [1..n -> Vals], m \in [1..n -> {0, 1}]} : n \in 0..rows}

InitImpute ==
    /\ df \in ImpTables(MaxImpRows)
    /\ rng = np_random_seed(0, 42)
    /\ pc = "idle"
    /\ fn = None
    /\ args = NoArgs
    /\ indices = <<>>
    /\ samples = 0
    /\ model = Unbound
    /\ result = <<>>
    /\ err = None
    /\ ref = {}
    /\ df_missing = NoTable

NextImpute ==
    \/ impute_mean
    \/ impute_median
    \/ impute_mode
    \/ Finish

SpecImpute == InitImpute /\ [][NextImpute]_vars

\* ---- regression imputation ---------------------------------------------------
RegressionModes == {"linear", "logistic", "ridge"}

\* the X_columns lists a call may pass; the first is the notebook's
XLists ==
    {<<"children", "partnered", "income">>,
     <<"children", "partnered", "age">>,
     <<"partnered">>}

\* if regression == 'linear': model = LinearRegression()
\* elif regression == 'logistic': model = LogisticRegression()
NewModel(r) ==
    IF r = "linear" THEN [Unbound EXCEPT !.kind = "LinearRegression"]
    ELSE IF r = "logistic" THEN [Unbound EXCEPT !.kind = "LogisticRegression"]
    ELSE Unbound

\* the values of row i in the columns cols
Features(t, cols, i) == [j \in 1..Len(cols) |-> t[cols[j]][i]]

\* model.fit(df[X_columns], df[impute_column]): every row of the table is passed
TrainingRows(t, a) == 1..NRows(t)

DesignMatrix(t, a) == [i \in 1..NRows(t) |-> Features(t, a.X_columns, i)]

\* what scikit-learn's fit raises
FitError(kind, X, y) ==
    IF Len(y) = 0 THEN "ValueError: Found array with 0 sample(s)"
    ELSE IF \/ \E i \in 1..Len(y) : y[i] = NaN
            \/ \E i \in 1..Len(X) : \E j \in 1..Len(X[i]) : X[i][j] = NaN
         THEN "ValueError: Input contains NaN"
    ELSE IF kind = "LogisticRegression" /\ Cardinality(Range(y)) < 2
         THEN "ValueError: This solver needs samples of at least 2 classes"
    ELSE None

\* the columns the comprehension reads: df.loc[i, 'age'],
\* df.loc[i, 'age_missingness'], df.loc[i, ['children', 'partnered', 'income']]
RetainedColumn(a) == "age"

TestedColumn(a) == "age_missingness"

PredictColumns(a) == <<"children", "partnered", "income">>

\* what model.predict raises for the feature row x
PredictError(m, x) ==
    IF Len(x) # Len(m.X[1]) THEN "ValueError: X has a different number of features"
    ELSE IF \E j \in 1..Len(x) : x[j] = NaN THEN "ValueError: Input contains NaN"
    ELSE None

\* a cell of the returned column: a stored value, or the prediction of the
\* call's fitted model for a feature row
ValueCell(v) == [tag |-> "value", v |-> v, x |-> <<>>]

PredictionCell(x) == [tag |-> "prediction", v |-> 0, x |-> x]

regression_imputation ==
    \E ic \in {"age", "income"}, xs \in XLists, r \in RegressionModes :
        /\ pc = "idle"
        /\ fn' = "regression_imputation"
        /\ args' = [impute_column |-> ic, X_columns |-> xs,
                    missingness_column |-> IndicatorOf(ic), regression |-> r,
                    p_missing |-> 0]
        /\ model' = NewModel(r)
        /\ result' = <<>>
        /\ err' = None
        /\ pc' = "fit"
        /\ UNCHANGED <<df, df_missing, rng, indices, samples, ref>>

\* model.fit(df[X_columns], df[impute_column])
Fit ==
    /\ pc = "fit"
    /\ fn = "regression_imputation"
    /\ LET X == DesignMatrix(df, args)
           y == df[args.impute_column]
           e == IF model.kind = "unbound"
                THEN "UnboundLocalError: local variable 'model' referenced before assignment"
                ELSE FitError(model.kind, X, y)
       IN  IF e # None
           THEN /\ err' = e
                /\ pc' = "raised"
                /\ UNCHANGED model
           ELSE /\ model' = [model EXCEPT !.fitted = TRUE, !.rows = TrainingRows(df, args),
                                          !.X = X, !.y = y]
                /\ pc' = "comprehension"
                /\ UNCHANGED err
    /\ UNCHANGED <<df, df_missing, rng, fn, args, indices, samples, result, ref>>

\* regression_impute = [df.loc[i,'age'] if df.loc[i,'age_missingness'] == 0
\*                      else model.predict(...)[0] for i in range(df.shape[0])]
ReturnImputed ==
    /\ pc = "comprehension"
    /\ fn = "regression_imputation"
    /\ LET tested == df[TestedColumn(args)]
           x(i) == Features(df, PredictColumns(args), i)
           bad == {i \in 1..NRows(df) : tested[i] # 0 /\ PredictError(model, x(i)) # None}
       IN  IF bad # {}
           THEN /\ err' = PredictError(model, x(CHOOSE i \in bad : \A j \in bad : i <= j))
                /\ pc' = "raised"
                /\ UNCHANGED result
           ELSE /\ result' = [i \in 1..NRows(df) |->
                                 IF tested[i] = 0
                                 THEN ValueCell(df[RetainedColumn(args)][i])
                                 ELSE PredictionCell(x(i))]
                /\ pc' = "returned"
                /\ UNCHANGED err
    /\ UNCHANGED <<df, df_missing, rng, fn, args, indices, samples, model, ref>>

RegTables(rows) ==
    UNION {{[age |-> a, age_missingness |-> am, income |-> inc,
             income_missingness |-> im, children |-> ch, partnered |-> pa] :
               a \in [1..n -> {1, 2}], am \in [1..n -> {0, 1}],
               inc \in [1..n -> {3, 4}], im \in [1..n -> {0, 1}],
               ch \in [1..n -> {0, NaN}], pa \in [1..n -> {1}]} : n \in 0..rows}

InitReg ==
    /\ df \in RegTables(MaxRegRows)
    /\ rng = np_random_seed(0, 42)
    /\ pc = "idle"
    /\ fn = None
    /\ args = NoArgs
    /\ indices = <<>>
    /\ samples = 0
    /\ model = Unbound
    /\ result = <<>>
    /\ err = None
    /\ ref = {}
    /\ df_missing = NoTable

NextReg ==
    \/ regression_imputation
    \/ Fit
    \/ ReturnImputed
    \/ Finish

SpecReg == InitReg /\ [][NextReg]_vars

\* ---- missingness application (the df_missing cell) ----------------------------
\* (the test == 1 for == 0: a mutation of Masked)
MaskedSwapped(t, c, mc) ==
    [i \in 1..ApplyRange |-> IF t[mc][i] = 1 THEN t[c][i] ELSE NaN]

\* [df.loc[i, c] if df.loc[i, mc] == 0 else np.nan for i in range(100)]
Masked(t, c, mc) ==
    [i \in 1..ApplyRange |-> IF t[mc][i] = 0 THEN t[c][i] ELSE NaN]

\* df_missing = pd.DataFrame(df['children']), then one masked column each for
\* age, partnered and income
build_df_missing ==
    /\ pc = "idle"
    /\ df_missing' =
          [children  |-> df["children"],
           age       |-> Masked(df, "age", "age_missingness"),
           partnered |-> Masked(df, "partnered", "partnered_missingness"),
           income    |-> Masked(df, "income", "income_missingness")]
    /\ pc' = "applied"
    /\ UNCHANGED <<df, rng, fn, args, indices, samples, model, result, err, ref>>

\* the notebook displays the new table and goes on
ShowHead ==
    /\ pc = "applied"
    /\ pc' = "shown"
    /\ UNCHANGED <<df, df_missing, rng, fn, args, indices, samples, model, result,
                   err, ref>>

\* row i of a table that repeats the pattern pat
Cell(pat, i) == pat[((i - 1) % Len(pat)) + 1]

\* a column of n rows that repeats the pattern pat
Cycle(pat, n) == [i \in 1..n |-> Cell(pat, i)]

\* the rows a pattern is made of: an age, a partnered flag and the three
\* indicators
PatRows == [age : {1, 2}, partnered : {1}, am : {0, 1}, pm : {0, 1}, im : {0, 1}]

\* tables of size rows with the columns of the notebook's df
AppTables(size) ==
    {[children              |-> Cycle(<<2>>, size),
      age                   |-> [i \in 1..size |-> Cell(pat, i).age],
      age_missingness       |-> [i \in 1..size |-> Cell(pat, i).am],
      partnered             |-> [i \in 1..size |-> Cell(pat, i).partnered],
      partnered_missingness |-> [i \in 1..size |-> Cell(pat, i).pm],
      income                |-> [i \in 1..size |-> 3 * Cell(pat, i).age],
      income_missingness    |-> [i \in 1..size |-> Cell(pat, i).im]] :
        pat \in UNION {[1..m -> PatRows] : m \in 1..PatLen}}

InitApply ==
    /\ df \in AppTables(DataSize)
    /\ rng = np_random_seed(0, 42)
    /\ pc = "idle"
    /\ fn = None
    /\ args = NoArgs
    /\ indices = <<>>
    /\ samples = 0
    /\ model = Unbound
    /\ result = <<>>
    /\ err = None
    /\ ref = {}
    /\ df_missing = NoTable

NextApply ==
    \/ build_df_missing
    \/ ShowHead

SpecApply == InitApply /\ [][NextApply]_vars

\* ---- claims about the generators --------------------------------------------
Weighted == fn \in {"create_mar_column", "create_nmar_column"}

Returned == pc = "returned" /\ IsGenerator(fn)

\* C1: the indicator column a generator returns has one entry per row, each 0
\* or 1, and exactly round(p_missing * n) of them are 1 (30 for p_missing =
\* 0.3 and n = 100), whatever indices were drawn.
C1_ExactCount ==
    /\ Round(3 * 100, 10) = 30
    /\ Returned =>
          /\ Len(result) = NRows(df)
          /\ \A i \in 1..Len(result) : result[i] \in {0, 1}
          /\ Sum(result) = Round(args.p_missing * NRows(df), PDen)

\* a call that returned after drawing some index more than once
C1_Witness ==
    /\ Returned
    /\ K >= 2
    /\ Len(indices) > K
    /\ Sum(result) = K

\* C2: a generator call that returns with the arguments of a kept earlier call
\* (same function, same table, same random_state, same other arguments) returns
\* the same column, whatever calls and draws were made before and in between.
C2_Determinism ==
    \A r \in ref : (Returned /\ r.key = Key(fn, args)) => result = r.result

\* a repeated call that drew at least two indices and returned
C2_Witness ==
    /\ Returned
    /\ K >= 2
    /\ \E r \in ref : r.key = Key(fn, args) /\ r.result = result

\* the weights the documentation gives a MAR / NMAR call: the value, or the
\* squared value, of the weighting column
DocWeight(i) ==
    IF args.method = "linear" THEN df[args.column][i]
    ELSE df[args.column][i] * df[args.column][i]

NoPositiveWeight == \A i \in 1..NRows(df) : DocWeight(i) <= 0

\* C7 as stated: a MAR / NMAR call on a table with rows, none of whose
\* weights is positive, never returns an indicator column.
C7_Original ==
    (Weighted /\ NRows(df) >= 1 /\ NoPositiveWeight) => pc # "returned"

\* C7 amended: a MAR / NMAR call none of whose weights is positive and whose
\* requested count round(p_missing * n) is at least 1 never returns and never
\* obtains an index: its first df.sample raises ValueError.
C7_DegenerateWeightsRaise ==
    (Weighted /\ NoPositiveWeight /\ K >= 1) =>
        /\ indices = <<>>
        /\ result = <<>>
        /\ \/ pc = "comprehension" /\ samples = 0 /\ ENABLED Comprehension
           \/ /\ pc = "raised"
              /\ samples = 1
              /\ err \in {"ValueError: weight vector many not include negative values",
                          "ValueError: Invalid weights: weights sum to zero"}

\* a call with all-zero weights and one with a negative weight, both raised
C7_Witness ==
    /\ Weighted
    /\ NoPositiveWeight
    /\ K >= 1
    /\ pc = "raised"
    /\ NRows(df) >= 2

\* C8: a generator call whose requested count round(p_missing * n) is 0 makes
\* no df.sample call at all and returns the all-zero column of length n.
C8_ZeroCount ==
    (IsGenerator(fn) /\ K = 0) =>
        /\ samples = 0
        /\ indices = <<>>
        /\ err = None
        /\ \/ pc = "while" /\ ENABLED ReturnColumn /\ ~ENABLED WhileLoop
           \/ pc = "returned" /\ result = [i \in 1..NRows(df) |-> 0]

\* a call with p_missing > 0 on a non-empty table whose count rounds to 0
C8_Witness ==
    /\ Returned
    /\ K = 0
    /\ args.p_missing > 0
    /\ NRows(df) >= 1
    /\ result = [i \in 1..NRows(df) |-> 0]

\* ---- claims about the imputers ----------------------------------------------
ImputerReturned == pc = "returned" /\ IsImputer(fn)

Target == df[args.impute_column]

Missing == df[args.missingness_column]

\* q = <<a, b>> is the mean of col
IsMean(q, col) == q[1] * Len(col) = Sum(col) * q[2]

\* q = <<a, b>> is the median of col: at most half of the rows lie below it, at
\* most half above it, and it is midway between its two nearest values
IsMedian(q, col) ==
    LET below == {i \in 1..Len(col) : col[i] * q[2] < q[1]}
        above == {i \in 1..Len(col) : col[i] * q[2] > q[1]}
        lo == CHOOSE v \in Range(col) :
                  v * q[2] <= q[1] /\ \A w \in Range(col) : w * q[2] <= q[1] => w <= v
        hi == CHOOSE v \in Range(col) :
                  v * q[2] >= q[1] /\ \A w \in Range(col) : w * q[2] >= q[1] => w >= v
    IN  /\ 2 * Cardinality(below) <= Len(col)
        /\ 2 * Cardinality(above) <= Len(col)
        /\ \E v \in Range(col) : v * q[2] <= q[1]
        /\ \E v \in Range(col) : v * q[2] >= q[1]
        /\ (lo + hi) * q[2] = 2 * q[1]

\* q = <<a, b>> is the mode of col: a value of col no other value is more
\* frequent than, the smallest such
IsMode(q, col) ==
    \E v \in Range(col) :
        /\ v * q[2] = q[1]
        /\ \A w \in Range(col) : Count(col, w) <= Count(col, v)
        /\ \A w \in Range(col) : Count(col, w) = Count(col, v) => v <= w

IsStatistic(q, col) ==
    IF fn = "impute_mean" THEN IsMean(q, col)
    ELSE IF fn = "impute_median" THEN IsMedian(q, col)
    ELSE IsMode(q, col)

\* the values of col in the rows whose indicator is 0
RECURSIVE ObservedUpTo(_, _, _)
ObservedUpTo(col, ind, i) ==
    IF i = 0 THEN <<>>
    ELSE IF ind[i] = 0 THEN Append(ObservedUpTo(col, ind, i - 1), col[i])
    ELSE ObservedUpTo(col, ind, i - 1)

Observed == ObservedUpTo(Target, Missing, NRows(df))

\* C3: impute_mean / impute_median / impute_mode return one cell per row; a row
\* whose indicator is 0 keeps exactly its value, and all rows whose indicator is
\* 1 receive one and the same value, the mean / median / mode of the target
\* column taken over all n stored rows.
C3_Imputation ==
    ImputerReturned =>
        /\ Len(result) = NRows(df)
        /\ \A i \in 1..NRows(df) :
              /\ Missing[i] = 0 => result[i] = <<Target[i], 1>>
              /\ Missing[i] = 1 => IsStatistic(result[i], Target)
        /\ \A i, j \in 1..NRows(df) :
              (Missing[i] = 1 /\ Missing[j] = 1) => result[i] = result[j]

\* a call on a column with observed and missing rows whose imputed value is the
\* statistic of all rows and not the statistic of the observed rows
C3_Witness ==
    /\ ImputerReturned
    /\ \E i, k \in 1..NRows(df) :
          /\ Missing[i] = 0
          /\ Missing[k] = 1
          /\ result[i] = <<Target[i], 1>>
          /\ IsStatistic(result[k], Target)
          /\ ~IsStatistic(result[k], Observed)

\* n * sum(y^2) - sum(y)^2 for the cells y scaled to the denominator d: the
\* Bessel-corrected variance times n * (n - 1) * d^2
Scaled(cells, d) == [i \in 1..Len(cells) |-> (cells[i][1] * d) \div cells[i][2]]

Spread(ys) ==
    Len(ys) * Sum([i \in 1..Len(ys) |-> ys[i] * ys[i]]) - Sum(ys) * Sum(ys)

\* np.std(imputed, ddof = 1) <= np.std(true, ddof = 1); both are defined from
\* two rows on
StdNotLarger(cells, col) ==
    LET d == 2 * Len(col)
    IN  Spread(Scaled(cells, d)) <= Spread(Scaled([i \in 1..Len(col) |-> <<col[i], 1>>], d))

SomeMissing == \E i \in 1..NRows(df) : Missing[i] = 1

\* C6 as stated: for every single-value imputer, a column of at least two rows
\* with a row marked missing has an observed+imputed standard deviation (ddof
\* = 1) not larger than that of the true column.
C6_Original ==
    (ImputerReturned /\ NRows(df) >= 2 /\ SomeMissing) => StdNotLarger(result, Target)

\* C6 amended: for impute_mean, a column of at least two rows with a row marked
\* missing has an observed+imputed standard deviation (ddof = 1) not larger
\* than that of the true column.
C6_MeanShrinksStd ==
    (ImputerReturned /\ fn = "impute_mean" /\ NRows(df) >= 2 /\ SomeMissing)
        => StdNotLarger(result, Target)

\* a mean imputation that makes the standard deviation strictly smaller
C6_Witness ==
    /\ ImputerReturned
    /\ fn = "impute_mean"
    /\ NRows(df) >= 3
    /\ SomeMissing
    /\ \E i \in 1..NRows(df) : Missing[i] = 0
    /\ StdNotLarger(result, Target)
    /\ Spread(Scaled(result, 2 * NRows(df))) < Spread([i \in 1..NRows(df) |-> 2 * NRows(df) * Target[i]])
    /\ \A k \in 1..NRows(df) : Missing[k] = 1 => ~IsMean(result[k], Observed)

\* ---- claims about regression_imputation --------------------------------------
Regressing == fn = "regression_imputation"

RegIndicator == df[args.missingness_column]

\* C4 as stated: in the column regression_imputation returns, a row whose
\* missingness_column value is 0 holds its impute_column value and a row whose
\* missingness_column value is 1 holds the fitted model's prediction for that
\* row's values in the given X_columns.
C4_Original ==
    (Regressing /\ pc = "returned") =>
        /\ Len(result) = NRows(df)
        /\ \A i \in 1..NRows(df) :
              /\ RegIndicator[i] = 0 =>
                    result[i] = ValueCell(df[args.impute_column][i])
              /\ RegIndicator[i] = 1 =>
                    result[i] = PredictionCell(Features(df, args.X_columns, i))

\* C5 as stated: the model is fitted on the rows whose target is observed
\* (indicator 0) and on no other row, so that no target value of a row marked
\* missing is part of the training data.
C5_Original ==
    (Regressing /\ model.fitted) =>
        /\ model.rows = {i \in 1..NRows(df) : RegIndicator[i] = 0}
        /\ model.y = ObservedUpTo(df[args.impute_column], RegIndicator, NRows(df))

\* C9 as stated: a call whose regression mode is neither 'linear' nor
\* 'logistic' fits no model, returns no column, and ends in an error that
\* describes the unsupported mode.
C9_Original ==
    (Regressing /\ args.regression \notin {"linear", "logistic"}) =>
        /\ ~model.fitted
        /\ result = <<>>
        /\ pc \in {"fit", "raised"}
        /\ pc = "raised" => err = "ValueError: unsupported regression mode"

\* C10 as stated: a call (with a supported mode) returns no column when fewer
\* than 2 rows have the target observed or a column of X_columns holds a
\* missing value.
C10_Original ==
    (/\ Regressing
     /\ args.regression \in {"linear", "logistic"}
     /\ \/ Cardinality({i \in 1..NRows(df) : RegIndicator[i] = 0}) < 2
        \/ \E j \in 1..Len(args.X_columns) :
               \E i \in 1..NRows(df) : df[args.X_columns[j]][i] = NaN)
        => pc # "returned"

\* ---- claims about the missingness application ---------------------------------
MaskedColumns == {"age", "partnered", "income"}

IndicatorName(c) ==
    IF c = "age" THEN "age_missingness"
    ELSE IF c = "partnered" THEN "partnered_missingness"
    ELSE "income_missingness"

Applied == pc \in {"applied", "shown"}

\* every row of every new column: not-a-number where the indicator is 1, the
\* source value where it is 0
CellsApplied ==
    Applied =>
        \A c \in MaskedColumns :
            /\ Len(df_missing[c]) = NRows(df)
            /\ \A i \in 1..NRows(df) :
                  /\ df[IndicatorName(c)][i] = 1 => df_missing[c][i] = NaN
                  /\ df[IndicatorName(c)][i] = 0 => df_missing[c][i] = df[c][i]

\* C11: after the missingness application every row of each new column holds
\* the not-a-number marker when the row's indicator is 1 and the source value
\* when it is 0, and no step of the application changes the source table.
C11_Application == []CellsApplied /\ [][df' = df]_vars

\* an applied table in which every column has a masked and a kept row
C11_Witness ==
    /\ Applied
    /\ \A c \in MaskedColumns :
          \E i, j \in 1..NRows(df) :
              /\ df[IndicatorName(c)][i] = 1
              /\ df_missing[c][i] = NaN
              /\ df[IndicatorName(c)][j] = 0
              /\ df_missing[c][j] = df[c][j]
              /\ df[c][j] # NaN

\* ---- claims about create_mcar_column on several tables -------------------------
\* C12: a create_mcar_column call that returns with the random_state and
\* p_missing of a kept earlier create_mcar_column call, on a table with the
\* same number of rows, has drawn the same indices and returns the same
\* column, whatever the cell values of the two tables.
C12_McarIgnoresValues ==
    \A r \in ref :
        (/\ Returned
         /\ fn = "create_mcar_column"
         /\ r.key[1] = "create_mcar_column"
         /\ r.key[2].random_state = args.random_state
         /\ r.key[2].p_missing = args.p_missing
         /\ NRows(r.table) = NRows(df))
            => (indices = r.indices /\ result = r.result)

\* a repeated call on a table with other cell values that drew the same
\* indices, one of them twice
C12_Witness ==
    /\ Returned
    /\ fn = "create_mcar_column"
    /\ K >= 2
    /\ Len(indices) > K
    /\ \E r \in ref :
          /\ r.key = Key(fn, args)
          /\ NRows(r.table) = NRows(df)
          /\ \A i \in 1..NRows(df) : r.table["age"][i] # df["age"][i]
          /\ r.indices = indices
          /\ r.result = result

\* ---- claims about the resample loop --------------------------------------------
\* the weight df.sample gives row i: 1 without weights (MCAR)
RowWeight(i) == IF fn = "create_mcar_column" THEN 1 ELSE DocWeight(i)

PositiveRows == {i \in 1..NRows(df) : RowWeight(i) > 0}

\* a running or finished generator call whose weights have no negative entry
\* and, if given, a positive one
ValidCall ==
    /\ IsGenerator(fn)
    /\ \A i \in 1..NRows(df) : RowWeight(i) >= 0
    /\ Weighted => PositiveRows # {}

Feasible == K <= Cardinality(PositiveRows)

\* a call that can never collect enough distinct indices does not return, does
\* not raise, and finds its loop test true whenever it evaluates it
LoopsOn ==
    (ValidCall /\ ~Feasible) =>
        /\ pc \in {"comprehension", "while"}
        /\ err = None
        /\ pc = "while" => LoopTest(indices, K)

\* C13: with weights that have no negative and at least one positive entry, a
\* generator call eventually returns if round(p_missing * n) is at most the
\* number of rows with positive weight (n for MCAR); otherwise it never
\* returns, never raises and its loop test never fails.
C13_Termination ==
    /\ (ValidCall /\ Feasible) ~> Returned
    /\ []LoopsOn

\* a call that asked for every positive-weight row of a table that also has a
\* zero-weight row, and returned after drawing some index more than once
C13_Witness ==
    /\ Returned
    /\ ValidCall
    /\ K = Cardinality(PositiveRows)
    /\ K >= 2
    /\ K < NRows(df)
    /\ Len(indices) > K

\* a call that asked for more rows than have positive weight, still in its
\* loop after every variate of the generator has been used
C13_StillLooping ==
    /\ ValidCall
    /\ ~Feasible
    /\ pc = "while"
    /\ Len(indices) >= K + RngMod

\* ---- claims about rows of weight zero ------------------------------------------
ZeroRows == {i \in 1..NRows(df) : df[args.column][i] = 0}

\* C14: in the column a create_mar_column or create_nmar_column call returns,
\* linear or quadratic, every row whose weighting value is 0 has entry 0.
C14_ZeroWeightUnmarked ==
    (Returned /\ Weighted) => \A i \in ZeroRows : result[i] = 0

\* a weighted call that returned marked rows, after a repeated draw, on a
\* table whose first row has weighting value 0
C14_Witness ==
    /\ Returned
    /\ Weighted
    /\ 1 \in ZeroRows
    /\ K >= 2
    /\ Len(indices) > K
    /\ Sum(result) = K

====
